---- MODULE Spec2Model ----
(***************************************************************************)
(* A model of the sconfig configuration file parser that transip-dynamic   *)
(* vendors and of the way parseConfig uses it.                             *)
(*                                                                         *)
(* Go strings are TLA+ strings; TLC evaluates Len, SubSeq, Head, Tail and  *)
(* \o on them, so the text functions are computed character by character   *)
(* the way the Go code computes them.  A Go index k is position k+1 here.  *)
(***************************************************************************)
EXTENDS Integers, Sequences, FiniteSets, TLC

VARIABLES
    fs,            \* the file system: path -> sequence of physical lines
    keyFiles,      \* the paths readKey can read a private key from
    typeHandlers,  \* the package variable typeHandlers: type name -> chain
    schema,        \* the struct type of c: field name -> type name
    config,        \* the struct c points to: field name -> value
    handlers,      \* the Handlers argument of Parse: field name -> handler
    file,          \* the file argument of Parse
    stack,         \* the active calls of readFile, the innermost last
    rlines,        \* Parse's local `lines`, what readFile returned
    cur,           \* how many logical lines the loop of Parse has taken
    callLog,       \* every converter and handler call made, in order
    err,           \* the error returned ("" is nil), or the panic message
    pc,            \* "setup", "read", "parse", "update", "done" or "panic"
    records,       \* updateDomain's argument records: the FQDNs to update
    info,          \* updateDomain's argument info: the DNS entries of the domain
    ip,            \* updateDomain's argument ip: [IPv4, IPv6]
    loop,          \* updateDomain's place in its loops and its counter f
    sent           \* the calls of sendUpdate made, each the info it was given

vars == <<fs, keyFiles, typeHandlers, schema, config, handlers, file, stack,
          rlines, cur, callLog, err, pc, records, info, ip, loop, sent>>

---------------------------------------------------------------------------
(* Bounds *)

\* physical lines per generated file
MaxLines == 3
\* physical lines of the generated sourced file
MaxIncLines == 2
\* files a process can hold open at once (RLIMIT_NOFILE)
MaxOpenFiles == 3
\* logical lines of the generated file Parse is given
MaxParseLines == 2
\* characters of the generated physical line
MaxChars == 4
\* physical lines of the generated file that sources itself or another
MaxCycleLines == 2
\* records of the domain updateDomain is given
MaxRecords == 2
\* DNS entries of the domain updateDomain is given
MaxEntries == 2

---------------------------------------------------------------------------
(* Strings *)

\* s[i-1] in Go
At(s, i) == SubSeq(s, i, i)

\* s[i-1:] in Go
From(s, i) == SubSeq(s, i, Len(s))

HasPrefix(s, p) == Len(s) >= Len(p) /\ SubSeq(s, 1, Len(p)) = p

HasSuffix(s, p) == Len(s) >= Len(p) /\ From(s, Len(s) - Len(p) + 1) = p

Contains(s, p) == \E i \in 1..(Len(s) - Len(p) + 1) : SubSeq(s, i, i + Len(p) - 1) = p

\* strings.Index(s[from-1:], sub) + from, or 0 when there is none
RECURSIVE IndexFrom(_, _, _)
IndexFrom(s, sub, from) ==
    IF from + Len(sub) - 1 > Len(s) THEN 0
    ELSE IF SubSeq(s, from, from + Len(sub) - 1) = sub THEN from
    ELSE IndexFrom(s, sub, from + 1)

IsSpace(c) == c \in {" ", "\t"}

RECURSIVE TrimLeftSpace(_)
TrimLeftSpace(s) ==
    IF Len(s) > 0 /\ IsSpace(At(s, 1)) THEN TrimLeftSpace(From(s, 2)) ELSE s

RECURSIVE TrimRightSpace(_)
TrimRightSpace(s) ==
    IF Len(s) > 0 /\ IsSpace(At(s, Len(s)))
    THEN TrimRightSpace(SubSeq(s, 1, Len(s) - 1)) ELSE s

TrimSpace(s) == TrimRightSpace(TrimLeftSpace(s))

\* strings.Split(s, sep) for a non-empty sep
RECURSIVE Split(_, _)
Split(s, sep) ==
    LET at == IndexFrom(s, sep, 1)
    IN  IF at = 0 THEN <<s>>
        ELSE <<SubSeq(s, 1, at - 1)>> \o Split(From(s, at + Len(sep)), sep)

RECURSIVE Join(_, _)
Join(v, sep) ==
    IF Len(v) = 0 THEN ""
    ELSE IF Len(v) = 1 THEN v[1]
    ELSE v[1] \o sep \o Join(Tail(v), sep)

\* strings.Replace(s, old, new, -1) for a non-empty old
RECURSIVE ReplaceAll(_, _, _)
ReplaceAll(s, old, new) ==
    LET at == IndexFrom(s, old, 1)
    IN  IF at = 0 THEN s
        ELSE SubSeq(s, 1, at - 1) \o new \o ReplaceAll(From(s, at + Len(old)), old, new)

Digits == "0123456789"

\* fmt.Sprintf("%d", n) for n >= 0
RECURSIVE Itoa(_)
Itoa(n) ==
    LET d == At(Digits, (n % Len(Digits)) + 1)
    IN  IF n < Len(Digits) THEN d ELSE Itoa(n \div Len(Digits)) \o d

---------------------------------------------------------------------------
(* The line reader's text functions.  Each returns [panic, out]: panic is  *)
(* TRUE when the Go code indexes the line out of range.                    *)

Panicked == [panic |-> TRUE, out |-> ""]

Ok(s) == [panic |-> FALSE, out |-> s]

\* the loop of removeComments; prevcmt is the Go (0-based) offset
RECURSIVE removeCommentsFrom(_, _)
removeCommentsFrom(line, prevcmt) ==
    LET at == IndexFrom(line, "#", prevcmt + 1)
        cmt == at - 1
    IN  IF at = 0 THEN Ok(line)
        ELSE IF cmt = 0 THEN Panicked
        ELSE IF At(line, cmt) = "\\"
             THEN removeCommentsFrom(SubSeq(line, 1, cmt - 1) \o From(line, cmt + 1), cmt)
             ELSE Ok(SubSeq(line, 1, cmt))

removeComments(line) == removeCommentsFrom(line, 0)

\* one turn of the loop of collapseWhitespace, for the character at
\* position i; [panic, nl, prevSpace]
collapseChar(line, i, nl, prevSpace) ==
    LET char == At(line, i)
        turn(n, p) == [panic |-> FALSE, nl |-> n, prevSpace |-> p]
        reads == [panic |-> i = 1, nl |-> nl, prevSpace |-> prevSpace]
    IN  IF char = "\\"
        THEN IF i = 1 THEN reads
             ELSE turn(IF At(line, i - 1) = "\\" THEN nl \o "\\" ELSE nl, prevSpace)
        ELSE IF IsSpace(char)
        THEN IF prevSpace
             THEN IF i = 1 THEN reads
                  ELSE turn(IF At(line, i - 1) = "\\" THEN nl \o char ELSE nl, prevSpace)
             ELSE turn(IF i # Len(line) THEN nl \o " " ELSE nl, TRUE)
        ELSE turn(nl \o char, FALSE)

\* the loop of collapseWhitespace from position i on, nl and prevSpace so far
RECURSIVE collapseFrom(_, _, _, _)
collapseFrom(line, i, nl, prevSpace) ==
    IF i > Len(line) THEN Ok(nl)
    ELSE CHOOSE out \in {IF t.panic THEN Panicked
                         ELSE collapseFrom(line, i + 1, t.nl, t.prevSpace) :
                            t \in {collapseChar(line, i, nl, prevSpace)}} : TRUE

collapseWhitespace(line) == collapseFrom(line, 1, "", FALSE)

\* collapseWhitespace(removeComments(line)), readFile line 154
processLine(line) ==
    LET rc == removeComments(line)
    IN  IF rc.panic THEN Panicked ELSE collapseWhitespace(rc.out)

---------------------------------------------------------------------------
(* readFile.  A frame is one active call: the file it reads, `no` (the     *)
(* physical lines scanned), `i`, and `lines`.  A logical line is           *)
(* [no, text], the Go []string{no, text}.                                  *)

NoError == ""

\* an empty map
Nothing == [x \in {} |-> ""]

ErrFirstIndented == "first line can't be indented"

ErrNotExist(path) == "open " \o path \o ": no such file or directory"

ErrTooManyOpen(path) == "open " \o path \o ": too many open files"

PanicIndex == "panic: runtime error: index out of range"

FatalStack == "fatal error: stack overflow"

SourcePrefix == "source "

NewFrame(path) == [file |-> path, no |-> 0, i |-> 0, lines |-> <<>>]

Top == stack[Len(stack)]

SetTop(f) == [stack EXCEPT ![Len(stack)] = f]

\* scanner.Scan() has another line
HasNext == Top.no < Len(fs[Top.file])

\* scanner.Text()
Raw == fs[Top.file][Top.no + 1]

isIndented(line) == Len(line) > 0 /\ IsSpace(At(line, 1))

\* empty lines and comments, skipped at line 150
Skipped(line) ==
    IF TrimSpace(line) = "" THEN TRUE ELSE At(TrimSpace(line), 1) = "#"

Scanning == pc = "read" /\ Len(stack) > 0 /\ HasNext

\* a return with an error: every caller up to Parse returns it as it is
Fail(e) ==
    /\ stack' = <<>>
    /\ err' = e
    /\ pc' = "done"

\* a run-time panic or fatal error: the process stops where it is
Crash(msg) ==
    /\ err' = msg
    /\ pc' = "panic"
    /\ UNCHANGED stack

\* lines[i-1][1] += " " + line
AppendText(f, line) ==
    [f EXCEPT !.lines[f.i].text = @ \o " " \o line]

\* lines = append(lines, []string{fmt.Sprintf("%d", no), line})
AppendLine(f, no, line) ==
    [f EXCEPT !.lines = Append(@, [no |-> Itoa(no), text |-> line])]

\* the splice with every spliced line given the number of the source line
AppendSourcedRenumbered(f, sourced) ==
    [f EXCEPT !.lines = @ \o [j \in 1..Len(sourced) |->
                                 [no |-> Itoa(f.no), text |-> sourced[j].text]]]

\* lines = append(lines, sourced...)
AppendSourced(f, sourced) ==
    [f EXCEPT !.lines = @ \o sourced]

\* the state of updateDomain, which Parse and readFile leave alone
updateVars == <<records, info, ip, loop, sent>>

\* updateDomain has not been called
NoUpdate ==
    /\ records = <<>>
    /\ info = <<>>
    /\ ip = [IPv4 |-> "", IPv6 |-> ""]
    /\ loop = [r |-> 1, i |-> 1, f |-> 0]
    /\ sent = <<>>

envVars == <<fs, keyFiles, typeHandlers, schema, handlers, file, updateVars>>

parseVars == <<config, cur, callLog>>

\* an empty line or a comment
ReadSkip ==
    /\ Scanning
    /\ Skipped(Raw)
    /\ stack' = SetTop([Top EXCEPT !.no = @ + 1])
    /\ UNCHANGED <<envVars, parseVars, rlines, err, pc>>

\* an indented line: lines 156 to 162
ReadIndented ==
    /\ Scanning
    /\ ~Skipped(Raw)
    /\ isIndented(Raw)
    /\ \E line \in {processLine(TrimSpace(Raw))} :
           IF line.panic THEN Crash(PanicIndex)
           ELSE IF Top.i = 0 THEN Fail(ErrFirstIndented)
           ELSE IF Top.i > Len(Top.lines) THEN Crash(PanicIndex)
           ELSE /\ stack' = SetTop(AppendText([Top EXCEPT !.no = @ + 1], line.out))
                /\ UNCHANGED <<err, pc>>
    /\ UNCHANGED <<envVars, parseVars, rlines>>

\* a line that is neither indented nor a source command: line 172
ReadPlain ==
    /\ Scanning
    /\ ~Skipped(Raw)
    /\ ~isIndented(Raw)
    /\ \E line \in {processLine(TrimSpace(Raw))} :
           /\ IF line.panic THEN TRUE ELSE ~HasPrefix(line.out, SourcePrefix)
           /\ IF line.panic THEN Crash(PanicIndex)
              ELSE /\ stack' = SetTop([AppendLine(Top, Top.no + 1, line.out)
                                          EXCEPT !.no = @ + 1, !.i = @ + 1])
                   /\ UNCHANGED <<err, pc>>
    /\ UNCHANGED <<envVars, parseVars, rlines>>

\* the source command with the call at the open-file limit taking the
\* place of its caller, so that nothing ever stops a cycle
ReadSourceInPlace ==
    /\ Scanning
    /\ ~Skipped(Raw)
    /\ ~isIndented(Raw)
    /\ \E line \in {processLine(TrimSpace(Raw))} :
       LET path == From(line.out, Len(SourcePrefix) + 1)
       IN  /\ ~line.panic
           /\ HasPrefix(line.out, SourcePrefix)
           /\ IF path \notin DOMAIN fs THEN Fail(ErrNotExist(path))
              ELSE IF Len(stack) >= MaxOpenFiles
                   THEN /\ stack' = SetTop(NewFrame(path))
                        /\ UNCHANGED <<err, pc>>
              ELSE /\ stack' = Append(SetTop([Top EXCEPT !.no = @ + 1]), NewFrame(path))
                   /\ UNCHANGED <<err, pc>>
    /\ UNCHANGED <<envVars, parseVars, rlines>>

\* the source command, up to the recursive call's os.Open: lines 165, 166, 134
ReadSource ==
    /\ Scanning
    /\ ~Skipped(Raw)
    /\ ~isIndented(Raw)
    /\ \E line \in {processLine(TrimSpace(Raw))} :
       LET path == From(line.out, Len(SourcePrefix) + 1)
       IN  /\ ~line.panic
           /\ HasPrefix(line.out, SourcePrefix)
           /\ IF path \notin DOMAIN fs THEN Fail(ErrNotExist(path))
              ELSE IF Len(stack) >= MaxOpenFiles
                   THEN \/ Fail(ErrTooManyOpen(path))
                        \/ Crash(FatalStack)
              ELSE /\ stack' = Append(SetTop([Top EXCEPT !.no = @ + 1]), NewFrame(path))
                   /\ UNCHANGED <<err, pc>>
    /\ UNCHANGED <<envVars, parseVars, rlines>>

\* the scanner is at the end of a sourced file: return lines, nil to line 166
ReadReturnSourced ==
    /\ pc = "read"
    /\ Len(stack) > 1
    /\ ~HasNext
    /\ LET parent == stack[Len(stack) - 1]
           rest == SubSeq(stack, 1, Len(stack) - 1)
       IN  stack' = [rest EXCEPT ![Len(rest)] =
                        [AppendSourced(parent, Top.lines) EXCEPT !.i = @ + 1]]
    /\ UNCHANGED <<envVars, parseVars, rlines, err, pc>>

\* the scanner is at the end of the file Parse asked for: return to line 241
ReadReturn ==
    /\ pc = "read"
    /\ Len(stack) = 1
    /\ ~HasNext
    /\ rlines' = Top.lines
    /\ stack' = <<>>
    /\ pc' = "parse"
    /\ UNCHANGED <<envVars, parseVars, err>>

---------------------------------------------------------------------------
(* The line reader on its own: readFile("a") over every small file system. *)

SeqsUpTo(S, n) == UNION {[1..k -> S] : k \in 0..n}

\* the physical lines the generated file "a" is written with
ReadVocab == {"k v", " w", "source b", "# c"}

\* the physical lines the generated file "b" is written with
IncVocab == {"k v", " w", "source a", "source c", "# c"}

\* the file "c", present whenever "b" is
FileC == <<"# c", "k v">>

ReadFileSystems ==
    {[p \in {"a"} |-> a] : a \in SeqsUpTo(ReadVocab, MaxLines)}
    \cup {[p \in {"a", "b", "c"} |->
                IF p = "a" THEN ab[1] ELSE IF p = "b" THEN ab[2] ELSE FileC] :
             ab \in SeqsUpTo(ReadVocab, MaxLines) \X SeqsUpTo(IncVocab, MaxIncLines)}

InitRead ==
    /\ fs \in ReadFileSystems
    /\ keyFiles = {}
    /\ typeHandlers = Nothing
    /\ schema = Nothing
    /\ config = Nothing
    /\ handlers = Nothing
    /\ file = "a"
    /\ stack = <<NewFrame("a")>>
    /\ rlines = <<>>
    /\ cur = 0
    /\ callLog = <<>>
    /\ err = NoError
    /\ pc = "read"
    /\ NoUpdate

NextRead ==
    \/ ReadSkip
    \/ ReadIndented
    \/ ReadPlain
    \/ ReadSource
    \/ ReadReturnSourced
    \/ ReadReturn

SpecRead == InitRead /\ [][NextRead]_vars

---------------------------------------------------------------------------
(* The line reader over files that source each other: readFile("a") where  *)
(* "a" sources itself or "b", and "b" sources itself or "a".               *)

\* the physical lines the generated file "a" is written with
CycleVocab == {"k v", "source a", "source b"}

\* the contents of the file "b"
CycleIncs == {<<"# c", "source a">>, <<"k v", " w">>, <<"source b">>}

CycleFileSystems ==
    {[p \in {"a", "b"} |-> IF p = "a" THEN a ELSE b] :
        a \in SeqsUpTo(CycleVocab, MaxCycleLines), b \in CycleIncs}

InitCycle ==
    /\ fs \in CycleFileSystems
    /\ keyFiles = {}
    /\ typeHandlers = Nothing
    /\ schema = Nothing
    /\ config = Nothing
    /\ handlers = Nothing
    /\ file = "a"
    /\ stack = <<NewFrame("a")>>
    /\ rlines = <<>>
    /\ cur = 0
    /\ callLog = <<>>
    /\ err = NoError
    /\ pc = "read"
    /\ NoUpdate

\* readFile is sequential code: as long as a step is possible, one is taken
FairSpecCycle == InitCycle /\ [][NextRead]_vars /\ WF_vars(NextRead)

---------------------------------------------------------------------------
(* The line reader over every short physical line: readFile("a") where the *)
(* first line of "a" is any string of at most MaxChars characters.         *)

\* a letter, a space, the comment sign and the escape character
TextAlphabet == {"k", " ", "#", "\\"}

RECURSIVE StringsUpTo(_, _)
StringsUpTo(A, n) ==
    IF n = 0 THEN {""}
    ELSE LET shorter == StringsUpTo(A, n - 1)
         IN  shorter \cup {t \o c : t \in shorter, c \in A}

\* the lines that follow the generated one
TextTails == {<<>>, <<" w">>, <<"source b">>}

\* the file "b" of these file systems: one logical line
TextFileB == <<"k v">>

TextFileSystems ==
    {[p \in {"a", "b"} |-> IF p = "a" THEN <<line>> \o tail ELSE TextFileB] :
        line \in StringsUpTo(TextAlphabet, MaxChars), tail \in TextTails}

InitText ==
    /\ fs \in TextFileSystems
    /\ keyFiles = {}
    /\ typeHandlers = Nothing
    /\ schema = Nothing
    /\ config = Nothing
    /\ handlers = Nothing
    /\ file = "a"
    /\ stack = <<NewFrame("a")>>
    /\ rlines = <<>>
    /\ cur = 0
    /\ callLog = <<>>
    /\ err = NoError
    /\ pc = "read"
    /\ NoUpdate

SpecText == InitText /\ [][NextRead]_vars

---------------------------------------------------------------------------
(* Values.  Every Go value the parser handles is a record [t, s, l, m]:    *)
(* its dynamic type, and its payload as a string, a list of strings or a   *)
(* map from strings to lists of strings.                                   *)

Val(t, s, l, m) == [t |-> t, s |-> s, l |-> l, m |-> m]

StrVal(s) == Val("string", s, <<>>, Nothing)

ListVal(l) == Val("[]string", "", l, Nothing)

NilVal == Val("nil", "", <<>>, Nothing)

MapType == "map[string][]string"

KeyType == "*rsa.PrivateKey"

\* the zero value of a field of type t (a nil map, a nil pointer, "")
Zero(t) == Val(t, IF t = "string" THEN "" ELSE "nil", <<>>, Nothing)

---------------------------------------------------------------------------
(* The name resolver *)

Lower == "abcdefghijklmnopqrstuvwxyz"

Upper == "ABCDEFGHIJKLMNOPQRSTUVWXYZ"

ToUpperChar(c) ==
    LET at == IndexFrom(Lower, c, 1) IN IF at = 0 THEN c ELSE At(Upper, at)

ToLowerChar(c) ==
    LET at == IndexFrom(Upper, c, 1) IN IF at = 0 THEN c ELSE At(Lower, at)

RECURSIVE ToUpper(_)
ToUpper(s) == IF Len(s) = 0 THEN "" ELSE ToUpperChar(At(s, 1)) \o ToUpper(From(s, 2))

RECURSIVE ToLower(_)
ToLower(s) == IF Len(s) = 0 THEN "" ELSE ToLowerChar(At(s, 1)) \o ToLower(From(s, 2))

\* the characters that separate the words of a key
Spacers == {"-", "_", " "}

RECURSIVE camelizeFrom(_, _)
camelizeFrom(s, wordStart) ==
    IF Len(s) = 0 THEN ""
    ELSE IF At(s, 1) \in Spacers THEN camelizeFrom(From(s, 2), TRUE)
    ELSE (IF wordStart THEN ToUpperChar(At(s, 1)) ELSE At(s, 1))
             \o camelizeFrom(From(s, 2), FALSE)

\* inflect.Camelize: the words of the key joined, each one capitalized
Camelize(key) == camelizeFrom(key, TRUE)

Vowels == {"a", "e", "i", "o", "u"}

\* inflect.Pluralize: the English plural; a word in -s is its own plural
Pluralize(word) ==
    LET n == Len(word)
    IN  IF n = 0 THEN word
        ELSE IF HasSuffix(word, "s") THEN word
        ELSE IF HasSuffix(word, "x") \/ HasSuffix(word, "ch") \/ HasSuffix(word, "sh")
             THEN word \o "es"
        ELSE IF n > 1 /\ HasSuffix(word, "y") /\ At(word, n - 1) \notin Vowels
             THEN SubSeq(word, 1, n - 1) \o "ies"
        ELSE word \o "s"

\* acr, the list at lines 295 to 299
Acronyms ==
    <<"Api", "Ascii", "Cpu", "Css", "Dns", "Eof", "Guid", "Html",
      "Https", "Http", "Id", "Ip", "Json", "Lhs", "Qps", "Ram", "Rhs",
      "Rpc", "Sla", "Smtp", "Sql", "Ssh", "Tcp", "Tls", "Ttl", "Udp",
      "Ui", "Uid", "Uuid", "Uri", "Url", "Utf8", "Vm", "Xml", "Xsrf",
      "Xss">>

\* the loop at lines 300 to 302, from the a-th acronym on
RECURSIVE upperAcronymsFrom(_, _)
upperAcronymsFrom(fieldName, a) ==
    IF a > Len(Acronyms) THEN fieldName
    ELSE LET replaced == ReplaceAll(fieldName, Acronyms[a], ToUpper(Acronyms[a]))
         IN  IF replaced = fieldName THEN upperAcronymsFrom(fieldName, a + 1)
             ELSE upperAcronymsFrom(replaced, a + 1)

ErrUnknownOption(fieldName, fieldNamePlural) ==
    "unknown option (field " \o fieldName \o " or " \o fieldNamePlural \o " is missing)"

\* the lookup without the plural fallback
fieldNameFromKeyExact(key, fields) ==
    LET fieldName == upperAcronymsFrom(Camelize(key), 1)
    IN  IF fieldName \in fields THEN [name |-> fieldName, err |-> NoError]
        ELSE [name |-> "", err |-> ErrUnknownOption(fieldName, Pluralize(fieldName))]

\* fieldNameFromKey over the field names of the struct; [name, err]
fieldNameFromKey(key, fields) ==
    LET fieldName == upperAcronymsFrom(Camelize(key), 1)
        fieldNamePlural == Pluralize(fieldName)
    IN  IF fieldName \in fields THEN [name |-> fieldName, err |-> NoError]
        ELSE IF fieldNamePlural \in fields THEN [name |-> fieldNamePlural, err |-> NoError]
        ELSE [name |-> "", err |-> ErrUnknownOption(fieldName, fieldNamePlural)]

---------------------------------------------------------------------------
(* Converters (TypeHandler values).  Each is named by a string; applying   *)
(* one gives [panic, err, out].                                            *)

Result(e, v) == [panic |-> FALSE, err |-> e, out |-> v]

ErrOneValue == "must have exactly one value"

OneValue(v) ==
    IF Len(v) # 1 THEN Result(ErrOneValue, NilVal) ELSE Result(NoError, ListVal(v))

\* the addresses net.ParseIP, net.ParseCIDR and the resolvers accept
Addresses == {"192.0.2.1", "2001:db8::1"}

\* handleIP, handleIPNet, handleTCPAddr and handleUDPAddr: v[0] parsed
handleAddr(t, v) ==
    IF Len(v) = 0 THEN [panic |-> TRUE, err |-> NoError, out |-> NilVal]
    ELSE IF v[1] \in Addresses THEN Result(NoError, Val(t, v[1], <<>>, Nothing))
    ELSE Result("not a valid address: " \o v[1], NilVal)

\* a caller's converter that lower-cases every token
lowerTokens(v) == Result(NoError, ListVal([k \in 1..Len(v) |-> ToLower(v[k])]))

\* a caller's converter that makes a string of the tokens
joinTokens(v) == Result(NoError, StrVal(Join(v, " ")))

ApplyConverter(h, v) ==
    CASE h = "OneValue" -> OneValue(v)
      [] h = "handleIP" -> handleAddr("net.IP", v)
      [] h = "handleIPNet" -> handleAddr("*net.IPNet", v)
      [] h = "handleTCPAddr" -> handleAddr("*net.TCPAddr", v)
      [] h = "handleUDPAddr" -> handleAddr("*net.UDPAddr", v)
      [] h = "lowerTokens" -> lowerTokens(v)
      [] h = "joinTokens" -> joinTokens(v)

\* typeHandlers[typeName] = fun
RegisterTypeIn(th, typeName, fun) ==
    [t \in DOMAIN th \cup {typeName} |-> IF t = typeName THEN fun ELSE th[t]]

\* what func init of handlers/net registers
NetTypes ==
    RegisterTypeIn(RegisterTypeIn(RegisterTypeIn(RegisterTypeIn(Nothing,
        "IP", <<"OneValue", "handleIP">>),
        "IPNet", <<"OneValue", "handleIPNet">>),
        "TCPAddr", <<"OneValue", "handleTCPAddr">>),
        "UDPAddr", <<"OneValue", "handleUDPAddr">>)

\* the argument a converter of the chain is called with: line 348 passes
\* the line's tokens to every one of them
ChainInput(value, previous) == value

\* the loop without the return at line 350: an error does not stop it
RECURSIVE runChainThrough(_, _, _, _, _)
runChainThrough(chain, k, value, previous, calls) ==
    IF k > Len(chain) THEN [calls |-> calls, panic |-> FALSE, err |-> NoError, out |-> previous]
    ELSE LET r == ApplyConverter(chain[k], value)
             call == [kind |-> "converter", name |-> chain[k], pos |-> k,
                      in |-> value, err |-> r.err, out |-> r.out]
         IN  IF r.panic
             THEN [calls |-> Append(calls, call), panic |-> TRUE, err |-> r.err, out |-> NilVal]
             ELSE runChainThrough(chain, k + 1, value, r.out, Append(calls, call))

\* the loop of setFromTypeHandler from the k-th converter on;
\* [calls, panic, err, out], calls being the calls made, in order
RECURSIVE runChainFrom(_, _, _, _, _)
runChainFrom(chain, k, value, previous, calls) ==
    IF k > Len(chain) THEN [calls |-> calls, panic |-> FALSE, err |-> NoError, out |-> previous]
    ELSE LET in == ChainInput(value, previous)
             r == ApplyConverter(chain[k], in)
             call == [kind |-> "converter", name |-> chain[k], pos |-> k,
                      in |-> in, err |-> r.err, out |-> r.out]
         IN  IF r.panic \/ r.err # NoError
             THEN [calls |-> Append(calls, call), panic |-> r.panic, err |-> r.err, out |-> NilVal]
             ELSE runChainFrom(chain, k + 1, value, r.out, Append(calls, call))

runChain(chain, value) == runChainFrom(chain, 1, value, NilVal, <<>>)

\* whether field.Set(reflect.ValueOf(v)) succeeds for a field of type t
Assignable(v, t) == v.t = t

---------------------------------------------------------------------------
(* Custom handlers: the two parseConfig passes, by the name of their field *)

ErrHandlerSuffix == " (from handler)"

\* readKey(file): [panic, err, key]
readKey(path) ==
    IF path \notin DOMAIN keyFiles
    THEN [panic |-> FALSE, err |-> ErrNotExist(path), key |-> Zero(KeyType)]
    ELSE IF keyFiles[path] = "text"
    THEN [panic |-> TRUE, err |-> NoError, key |-> Zero(KeyType)]
    ELSE IF keyFiles[path] # "pkcs8"
    THEN [panic |-> FALSE, err |-> "x509: failed to parse private key", key |-> Zero(KeyType)]
    ELSE [panic |-> FALSE, err |-> NoError, key |-> Val(KeyType, path, <<>>, Nothing)]

\* the "KeyFile" handler, transip-dynamic.go lines 104 to 111
handleKeyFile(v, c) ==
    LET path == Join(v, " ")
        k == readKey(path)
    IN  [panic |-> k.panic, err |-> k.err,
         config |-> [c EXCEPT !["KeyFile"] = StrVal(path), !["key"] = k.key]]

RECURSIVE TrimRightDots(_)
TrimRightDots(r) ==
    IF Len(r) > 0 /\ At(r, Len(r)) = "." THEN TrimRightDots(SubSeq(r, 1, Len(r) - 1)) ELSE r

ErrNoFQDN(r) == "record " \o r \o " doesn't look like a valid FQDN"

\* config.Records[domain] = append(config.Records[domain], fqdn)
AddRecord(m, domain, fqdn) ==
    [d \in DOMAIN m \cup {domain} |->
        IF d = domain THEN (IF d \in DOMAIN m THEN m[d] ELSE <<>>) \o <<fqdn>> ELSE m[d]]

\* the loop of the "Records" handler from the k-th token on; [err, m]
RECURSIVE recordsFrom(_, _, _)
recordsFrom(v, k, m) ==
    IF k > Len(v) THEN [err |-> NoError, m |-> m]
    ELSE LET r == TrimRightDots(v[k])
             s == Split(r, ".")
         IN  IF Len(s) < 2 THEN [err |-> ErrNoFQDN(r), m |-> m]
             ELSE recordsFrom(v, k + 1,
                      AddRecord(m, Join(SubSeq(s, Len(s) - 1, Len(s)), "."), r \o "."))

\* the "Records" handler, transip-dynamic.go lines 112 to 129
handleRecords(v, c) ==
    LET r == recordsFrom(v, 1, c["Records"].m)
    IN  [panic |-> FALSE, err |-> r.err,
         config |-> [c EXCEPT !["Records"] = Val(MapType, "", <<>>, r.m)]]

ApplyHandler(h, v, c) ==
    CASE h = "KeyFile" -> handleKeyFile(v, c)
      [] h = "Records" -> handleRecords(v, c)

\* setFromHandler: [has, panic, err, config, calls]
setFromHandler(fieldName, values, hs, c) ==
    IF fieldName \notin DOMAIN hs
    THEN [has |-> FALSE, panic |-> FALSE, err |-> NoError, config |-> c, calls |-> <<>>]
    ELSE LET r == ApplyHandler(hs[fieldName], values, c)
         IN  [has |-> TRUE, panic |-> r.panic,
              err |-> IF r.err # NoError THEN r.err \o ErrHandlerSuffix ELSE NoError,
              config |-> r.config,
              calls |-> <<[kind |-> "handler", name |-> hs[fieldName], pos |-> 1,
                           in |-> values, err |-> r.err, out |-> NilVal]>>]

\* setFromTypeHandler: [has, panic, err, config, calls]
setFromTypeHandler(fieldName, value, th, sch, c) ==
    IF sch[fieldName] \notin DOMAIN th
    THEN [has |-> FALSE, panic |-> FALSE, err |-> NoError, config |-> c, calls |-> <<>>]
    ELSE LET r == runChain(th[sch[fieldName]], value)
         IN  IF r.panic \/ r.err # NoError
             THEN [has |-> TRUE, panic |-> r.panic, err |-> r.err, config |-> c,
                   calls |-> r.calls]
             ELSE [has |-> TRUE, panic |-> ~Assignable(r.out, sch[fieldName]),
                   err |-> NoError,
                   config |-> IF Assignable(r.out, sch[fieldName])
                              THEN [c EXCEPT ![fieldName] = r.out] ELSE c,
                   calls |-> r.calls]

ErrUnsupported(t) == "don't know how to set fields of the type " \o t

\* the message without the line number
fmterrNoLine(f, line, key, e) ==
    f \o ": error parsing " \o key \o ": " \o e

fmterr(f, line, key, e) ==
    f \o " line " \o line \o ": error parsing " \o key \o ": " \o e

---------------------------------------------------------------------------
(* Parse: the loop over rlines, one logical line a step.                   *)

\* the logical line the loop is at
Line == rlines[cur + 1]

\* v, line 251
Tokens == Split(Line.text, " ")

Resolved == fieldNameFromKey(Tokens[1], DOMAIN schema)

InLoop == pc = "parse" /\ cur < Len(rlines)

\* the calls of this turn of the loop, added to the log
Logged(calls) == callLog \o [j \in 1..Len(calls) |-> [line |-> cur + 1] @@ calls[j]]

\* return fmterr(file, line[0], v[0], err)
FailLine(e) == Fail(fmterr(file, Line.no, Tokens[1], e))

\* a turn of the loop that notes the error and goes on to the next line
DispatchedAndOn(r) ==
    /\ callLog' = Logged(r.calls)
    /\ IF r.panic
       THEN /\ Crash(PanicIndex)
            /\ UNCHANGED <<config, cur>>
       ELSE /\ config' = r.config
            /\ cur' = cur + 1
            /\ err' = IF r.err # NoError THEN fmterr(file, Line.no, Tokens[1], r.err) ELSE err
            /\ UNCHANGED <<stack, pc>>

\* what a turn of the loop does with the outcome r of a setFrom... call
Dispatched(r) ==
    /\ callLog' = Logged(r.calls)
    /\ IF r.panic
       THEN /\ Crash(PanicIndex)
            /\ UNCHANGED <<config, cur>>
       ELSE /\ config' = r.config
            /\ IF r.err # NoError
               THEN FailLine(r.err) /\ UNCHANGED cur
               ELSE cur' = cur + 1 /\ UNCHANGED <<stack, err, pc>>

\* fieldNameFromKey fails: lines 254 to 257
ParseUnknownOption ==
    /\ InLoop
    /\ Resolved.err # NoError
    /\ FailLine(Resolved.err)
    /\ UNCHANGED <<envVars, parseVars, rlines>>

\* the field has a custom handler: lines 261 to 266
ParseHandler ==
    /\ InLoop
    /\ Resolved.err = NoError
    /\ Resolved.name \in DOMAIN handlers
    /\ Dispatched(setFromHandler(Resolved.name, Tail(Tokens), handlers, config))
    /\ UNCHANGED <<envVars, rlines>>

\* the converter chain tried whether or not the field has a handler
ParseTypeHandlerFirst ==
    /\ InLoop
    /\ Resolved.err = NoError
    /\ schema[Resolved.name] \in DOMAIN typeHandlers
    /\ Dispatched(setFromTypeHandler(Resolved.name, Tail(Tokens), typeHandlers,
                                     schema, config))
    /\ UNCHANGED <<envVars, rlines>>

\* no handler, and the field's type has a converter chain: lines 269 to 274
ParseTypeHandler ==
    /\ InLoop
    /\ Resolved.err = NoError
    /\ Resolved.name \notin DOMAIN handlers
    /\ schema[Resolved.name] \in DOMAIN typeHandlers
    /\ Dispatched(setFromTypeHandler(Resolved.name, Tail(Tokens), typeHandlers,
                                     schema, config))
    /\ UNCHANGED <<envVars, rlines>>

\* neither: lines 277 to 279
ParseUnsupported ==
    /\ InLoop
    /\ Resolved.err = NoError
    /\ Resolved.name \notin DOMAIN handlers
    /\ schema[Resolved.name] \notin DOMAIN typeHandlers
    /\ FailLine(ErrUnsupported(schema[Resolved.name]))
    /\ UNCHANGED <<envVars, parseVars, rlines>>

\* the loop is over: return nil
ParseReturn ==
    /\ pc = "parse"
    /\ cur = Len(rlines)
    /\ pc' = "done"
    /\ UNCHANGED <<envVars, parseVars, rlines, stack, err>>

---------------------------------------------------------------------------
(* The process: registrations, then one call of Parse.                     *)

\* configT, transip-dynamic.go lines 31 to 38
ConfigT ==
    [f \in {"User", "KeyFile", "API", "GetIP", "Records", "key"} |->
        IF f = "Records" THEN MapType ELSE IF f = "key" THEN KeyType ELSE "string"]

\* a struct with the field Record and no field Records
SingularT == [f \in {"User", "Record"} |-> "string"]

\* the Handlers parseConfig passes
ParseConfigHandlers == [f \in {"KeyFile", "Records"} |-> f]

\* a Handlers map with a handler for Records alone
RecordsHandler == [f \in {"Records"} |-> f]

\* the Handlers maps a caller passes with a struct of the given type
HandlersFor(sch) ==
    IF sch = ConfigT THEN {Nothing, RecordsHandler, ParseConfigHandlers} ELSE {Nothing}

\* the chains callers register for string fields
Chains ==
    {<<"joinTokens">>, <<"lowerTokens", "OneValue", "joinTokens">>, <<"OneValue">>}

\* the example file of the specification
ConfigFile ==
    <<"user martin",
      "key-file  /home/martin/key.pem",
      "records example.com",
      "   www.example.com">>

\* a file that sources another one
TopFile == <<"# settings", "source inc", "api v1">>

IncFile == <<"", "get-ip http://ip", "key-file no.pem", "user x">>

\* the logical lines the generated file "main" is written with
ParseVocab ==
    {"user Ab", "user a b", "key-file k.pem", "records a.b x.", "record a.b", "bogus v"}

\* a file whose first line is indented
BadFile == <<"  user x">>

\* a file that sources a file that does not exist
DanglingFile == <<"user x", "source nofile">>

FixedFiles ==
    [p \in {"config", "top", "inc", "bad", "dangling"} |->
        CASE p = "config" -> ConfigFile
          [] p = "top" -> TopFile
          [] p = "inc" -> IncFile
          [] p = "bad" -> BadFile
          [] p = "dangling" -> DanglingFile]

ParseFileSystems ==
    {FixedFiles} \cup {[p \in {"main"} |-> m] : m \in SeqsUpTo(ParseVocab, MaxParseLines)}

KeyFiles == [p \in {"/home/martin/key.pem", "k.pem"} |-> "pkcs8"]

Init ==
    /\ fs \in ParseFileSystems
    /\ keyFiles = KeyFiles
    /\ typeHandlers = Nothing
    /\ schema \in {ConfigT, SingularT}
    /\ config = [f \in DOMAIN schema |-> Zero(schema[f])]
    /\ handlers = Nothing
    /\ file = ""
    /\ stack = <<>>
    /\ rlines = <<>>
    /\ cur = 0
    /\ callLog = <<>>
    /\ err = NoError
    /\ pc = "setup"
    /\ NoUpdate

\* func init of handlers/net, when the program links that package
NetInit ==
    /\ pc = "setup"
    /\ typeHandlers = Nothing
    /\ typeHandlers' = NetTypes
    /\ UNCHANGED <<fs, keyFiles, schema, handlers, file, parseVars, rlines, stack, err, pc,
                   updateVars>>

RegisterType(typeName, fun) ==
    /\ pc = "setup"
    /\ typeHandlers' = RegisterTypeIn(typeHandlers, typeName, fun)
    /\ UNCHANGED <<fs, keyFiles, schema, handlers, file, parseVars, rlines, stack, err, pc,
                   updateVars>>

\* Parse(c, f, hs) up to the os.Open of readFile: lines 240, 241 and 134
CallParse(f, hs) ==
    /\ pc = "setup"
    /\ file' = f
    /\ handlers' = hs
    /\ IF f \notin DOMAIN fs THEN Fail(ErrNotExist(f))
       ELSE /\ stack' = <<NewFrame(f)>>
            /\ pc' = "read"
            /\ UNCHANGED err
    /\ UNCHANGED <<fs, keyFiles, typeHandlers, schema, parseVars, rlines, updateVars>>

Next ==
    \/ NetInit
    \/ \E c \in Chains : RegisterType("string", c)
    \/ \E f \in DOMAIN fs \cup {"nofile"} : \E hs \in HandlersFor(schema) : CallParse(f, hs)
    \/ ReadSkip
    \/ ReadIndented
    \/ ReadPlain
    \/ ReadSource
    \/ ReadReturnSourced
    \/ ReadReturn
    \/ ParseUnknownOption
    \/ ParseHandler
    \/ ParseTypeHandler
    \/ ParseUnsupported
    \/ ParseReturn

Spec == Init /\ [][Next]_vars

---------------------------------------------------------------------------
(* updateDomain, transip-dynamic.go lines 285 to 324.  An entry of info is *)
(* [Type, FQDN, Content]; Name and Expire play no part in what is updated  *)
(* (Expire only in a warning on stderr).  A step is one turn of the inner  *)
(* loop; loop.r and loop.i are the positions in records and info.          *)

\* for _, record := range records has a record left
InRecords == pc = "update" /\ loop.r <= Len(records)

\* for i := range info has an entry left
InInfo == InRecords /\ loop.i <= Len(info)

\* record, the range value of the outer loop
Record == records[loop.r]

\* info[i]
Entry == info[loop.i]

\* the entry types updateDomain touches
AddressTypes == {"A", "AAAA"}

ErrNoIPv4(record) == "no IPv4 address found but " \o record \o " is an A record"

ErrNoIPv6(record) == "no IPv6 address found but " \o record \o " is an AAAA record"

\* the error of line 318; %v of a []string is its elements between brackets
ErrNoRecord(recs) ==
    "no A or AAAA record found for [" \o Join(recs, " ") \o "]; did you set them in TransIP?"

\* what soapRequest can fail with inside sendUpdate
ErrSoap == "Post: connection refused"

\* a return of updateDomain with an error
UpdateFail(e) ==
    /\ err' = e
    /\ pc' = "done"

\* continue at line 290: the entry is neither an A nor an AAAA entry
UpdateSkipType ==
    /\ InInfo
    /\ Entry.Type \notin AddressTypes
    /\ loop' = [loop EXCEPT !.i = @ + 1]
    /\ UNCHANGED <<fs, keyFiles, typeHandlers, schema, handlers, file, parseVars, rlines,
                   stack, err, pc, records, info, ip, sent>>

\* the test of line 293 fails: an address entry of another name
UpdateOtherName ==
    /\ InInfo
    /\ Entry.Type \in AddressTypes
    /\ Record # Entry.FQDN
    /\ loop' = [loop EXCEPT !.i = @ + 1]
    /\ UNCHANGED <<fs, keyFiles, typeHandlers, schema, handlers, file, parseVars, rlines,
                   stack, err, pc, records, info, ip, sent>>

\* lines 293 to 313: the entry is an address entry of the record
UpdateMatch ==
    /\ InInfo
    /\ Entry.Type \in AddressTypes
    /\ Record = Entry.FQDN
    /\ IF Entry.Type = "A" /\ ip.IPv4 = ""
       THEN UpdateFail(ErrNoIPv4(Record)) /\ UNCHANGED <<info, loop>>
       ELSE IF Entry.Type # "A" /\ ip.IPv6 = ""
       THEN UpdateFail(ErrNoIPv6(Record)) /\ UNCHANGED <<info, loop>>
       ELSE /\ info' = [info EXCEPT ![loop.i].Content =
                           IF Entry.Type = "A" THEN ip.IPv4 ELSE ip.IPv6]
            /\ loop' = [loop EXCEPT !.i = @ + 1, !.f = @ + 1]
            /\ UNCHANGED <<err, pc>>
    /\ UNCHANGED <<fs, keyFiles, typeHandlers, schema, handlers, file, parseVars, rlines,
                   stack, records, ip, sent>>

\* the inner loop is over: the next record
UpdateNextRecord ==
    /\ InRecords
    /\ loop.i > Len(info)
    /\ loop' = [loop EXCEPT !.r = @ + 1, !.i = 1]
    /\ UNCHANGED <<fs, keyFiles, typeHandlers, schema, handlers, file, parseVars, rlines,
                   stack, err, pc, records, info, ip, sent>>

\* lines 317 to 320: fewer matches counted than there are records
UpdateNoRecord ==
    /\ pc = "update"
    /\ loop.r > Len(records)
    /\ Len(records) > loop.f
    /\ UpdateFail(ErrNoRecord(records))
    /\ UNCHANGED <<fs, keyFiles, typeHandlers, schema, handlers, file, parseVars, rlines,
                   stack, updateVars>>

\* return sendUpdate(domain, info), line 323
UpdateSend ==
    /\ pc = "update"
    /\ loop.r > Len(records)
    /\ Len(records) <= loop.f
    /\ sent' = Append(sent, info)
    /\ pc' = "done"
    /\ \E e \in {NoError, ErrSoap} : err' = e
    /\ UNCHANGED <<fs, keyFiles, typeHandlers, schema, handlers, file, parseVars, rlines,
                   stack, records, info, ip, loop>>

\* the FQDNs of the records and of the entries
FQDNs == {"www.e.com.", "mail.e.com."}

\* the DNS entries getDomain can return
Entries == [Type : {"A", "AAAA", "MX"}, FQDN : FQDNs, Content : {"old"}]

\* what getIP can return
IPs == [IPv4 : {"", "192.0.2.1"}, IPv6 : {"", "2001:db8::1"}]

\* updateDomain(domain, records, info, ip) is called
InitUpdate ==
    /\ records \in SeqsUpTo(FQDNs, MaxRecords)
    /\ info \in SeqsUpTo(Entries, MaxEntries)
    /\ ip \in IPs
    /\ loop = [r |-> 1, i |-> 1, f |-> 0]
    /\ sent = <<>>
    /\ fs = Nothing
    /\ keyFiles = {}
    /\ typeHandlers = Nothing
    /\ schema = Nothing
    /\ config = Nothing
    /\ handlers = Nothing
    /\ file = ""
    /\ stack = <<>>
    /\ rlines = <<>>
    /\ cur = 0
    /\ callLog = <<>>
    /\ err = NoError
    /\ pc = "update"

NextUpdate ==
    \/ UpdateSkipType
    \/ UpdateOtherName
    \/ UpdateMatch
    \/ UpdateNextRecord
    \/ UpdateNoRecord
    \/ UpdateSend

SpecUpdate == InitUpdate /\ [][NextUpdate]_vars

---------------------------------------------------------------------------
(* Claims about the line reader, checked under SpecRead.                   *)

\* the step scans an indented line that is neither empty nor a comment
AtIndented == Scanning /\ ~Skipped(Raw) /\ isIndented(Raw)

\* C4: an indented line that follows at least one logical line is appended,
\* after one space, to the last logical line produced so far, which keeps
\* its line number; every other logical line is left as it was.
C4_IndentedJoinsLast ==
    [][(AtIndented /\ Len(Top.lines) > 0) =>
         /\ pc' = "read"
         /\ Len(stack') = Len(stack)
         /\ LET old == Top.lines
                new == stack'[Len(stack)].lines
                n == Len(old)
            IN  /\ Len(new) = n
                /\ new[n].no = old[n].no
                /\ new[n].text = old[n].text \o " " \o processLine(TrimSpace(Raw)).out
                /\ \A j \in 1..(n - 1) : new[j] = old[j]]_vars

\* C6: an indented line met while the output sequence is still empty makes
\* readFile return "first line can't be indented"; it never crashes.
C6_IndentedFirstIsError ==
    [][(AtIndented /\ Len(Top.lines) = 0) =>
         /\ pc' = "done"
         /\ err' = ErrFirstIndented]_vars

\* the step scans a source command
AtSource ==
    /\ Scanning /\ ~Skipped(Raw) /\ ~isIndented(Raw)
    /\ ~processLine(TrimSpace(Raw)).panic
    /\ HasPrefix(processLine(TrimSpace(Raw)).out, SourcePrefix)

\* the logical line l was made from physical line number l.no of some file,
\* a line that is neither indented nor a source command
KeepsOwnNumber(l) ==
    \E g \in DOMAIN fs : \E n \in 1..Len(fs[g]) :
        /\ l.no = Itoa(n)
        /\ ~isIndented(fs[g][n])
        /\ ~Skipped(fs[g][n])
        /\ ~HasPrefix(processLine(TrimSpace(fs[g][n])).out, SourcePrefix)
        /\ HasPrefix(l.text, processLine(TrimSpace(fs[g][n])).out)

\* C5: a source command inserts at its position exactly the logical lines
\* the sourced file's readFile returns, in order and with their own line
\* numbers, around the parent's own lines; an error in a sourced file ends
\* the whole read with that error.
C5_SourceSplices ==
    [][/\ (pc = "read" /\ Len(stack) > 1 /\ ~HasNext) =>
            /\ pc' = "read"
            /\ Len(stack') = Len(stack) - 1
            /\ stack'[Len(stack')].lines = stack[Len(stack')].lines \o Top.lines
            /\ stack'[Len(stack')].no = stack[Len(stack')].no
       /\ (pc = "read" /\ pc' = "read") =>
            \A k \in 1..Len(stack') : \A j \in 1..Len(stack'[k].lines) :
                /\ KeepsOwnNumber(stack'[k].lines[j])
                /\ (k <= Len(stack) /\ j <= Len(stack[k].lines)) =>
                       stack'[k].lines[j].no = stack[k].lines[j].no
       /\ (pc = "read" /\ pc' = "parse") =>
            \A j \in 1..Len(rlines') : KeepsOwnNumber(rlines'[j])
       /\ (AtSource /\ From(processLine(TrimSpace(Raw)).out, Len(SourcePrefix) + 1)
                          \notin DOMAIN fs) =>
            /\ pc' = "done"
            /\ err' = ErrNotExist(From(processLine(TrimSpace(Raw)).out,
                                       Len(SourcePrefix) + 1))
       /\ (pc = "read" /\ pc' = "done") =>
            /\ err' # NoError
            /\ stack' = <<>>
            /\ rlines' = <<>>]_vars

\* a read in which file "a" sources "b", "b" sources "c" and the lines of
\* all three come out in the order met, each with its own number
C5_Witness ==
    /\ pc = "parse"
    /\ "b" \in DOMAIN fs
    /\ fs["a"] = <<"# c", "k v", "source b">>
    /\ fs["b"] = <<"k v", "source c">>
    /\ rlines = <<[no |-> "2", text |-> "k v"], [no |-> "1", text |-> "k v"],
                  [no |-> "2", text |-> "k v"]>>

---------------------------------------------------------------------------
(* Claims about Parse, checked under Spec.                                 *)

\* the logical lines the loop has dispatched, the failed one included
Taken ==
    IF pc \in {"done", "panic"} /\ cur < Len(rlines) THEN cur + 1 ELSE cur

KeyOf(k) == Split(rlines[k].text, " ")[1]

ArgsOf(k) == Tail(Split(rlines[k].text, " "))

FieldOf(k) == fieldNameFromKey(KeyOf(k), DOMAIN schema)

\* the calls made for the k-th logical line, in order
CallsOf(k) == SelectSeq(callLog, LAMBDA e : e.line = k)

HasHandler(k) == FieldOf(k).err = NoError /\ FieldOf(k).name \in DOMAIN handlers

\* no handler, and a chain registered for the type of the field
HasChain(k) ==
    /\ FieldOf(k).err = NoError
    /\ FieldOf(k).name \notin DOMAIN handlers
    /\ schema[FieldOf(k).name] \in DOMAIN typeHandlers

ChainOf(k) == typeHandlers[schema[FieldOf(k).name]]

\* C1: a line whose field has a custom handler gets that handler called
\* once with the tokens after the key and no converter called, whether or
\* not a chain is registered for the field's type; a handler error ends
\* Parse with the text "(from handler)" after it, a success moves on.
C1_HandlerWins ==
    \A k \in 1..Taken : HasHandler(k) =>
        /\ Len(CallsOf(k)) = 1
        /\ CallsOf(k)[1].kind = "handler"
        /\ CallsOf(k)[1].name = handlers[FieldOf(k).name]
        /\ CallsOf(k)[1].in = ArgsOf(k)
        /\ IF CallsOf(k)[1].err # NoError
           THEN /\ pc = "done"
                /\ k = cur + 1
                /\ err = fmterr(file, rlines[k].no, KeyOf(k),
                                CallsOf(k)[1].err \o " (from handler)")
           ELSE k <= cur

\* the KeyFile handler has run for a line although a chain is registered
\* for strings, the type of KeyFile, and Parse has gone on to the end
C1_Witness ==
    /\ pc = "done"
    /\ err = NoError
    /\ "string" \in DOMAIN typeHandlers
    /\ \E k \in 1..Len(rlines) :
          /\ HasHandler(k)
          /\ FieldOf(k).name = "KeyFile"
          /\ config["KeyFile"] = StrVal("k.pem")

\* C2: in a chain of two or more converters the first is called with the
\* line's tokens, each later one with the output of the one before it, and
\* the field is assigned the output of the last.
C2_ChainThreadsOutput ==
    \A k \in 1..Taken : (HasChain(k) /\ Len(ChainOf(k)) >= 2) =>
        LET calls == CallsOf(k)
        IN  /\ Len(calls) >= 1 => calls[1].in = ArgsOf(k)
            /\ \A j \in 1..(Len(calls) - 1) :
                  /\ calls[j].out.t = "[]string"
                  /\ calls[j + 1].in = calls[j].out.l
            /\ (k <= cur /\ \A j \in (k + 1)..cur : FieldOf(j).name # FieldOf(k).name) =>
                  config[FieldOf(k).name] = calls[Len(calls)].out

\* C3: the converters of a chain are called in registration order; once
\* one fails no later one is called, the field keeps its value and Parse
\* returns the error; a chain that starts with OneValue and gets no token
\* or several fails with its error and does not assign.
C3_ChainStopsAtFirstError ==
    [][(InLoop /\ HasChain(cur + 1)) =>
         LET k == cur + 1
             chain == ChainOf(k)
             calls == SubSeq(callLog', Len(callLog) + 1, Len(callLog'))
             n == Len(calls)
         IN  /\ n <= Len(chain)
             /\ \A j \in 1..n :
                   /\ calls[j].line = k
                   /\ calls[j].kind = "converter"
                   /\ calls[j].name = chain[j]
                   /\ calls[j].pos = j
                   /\ j < n => calls[j].err = NoError
             /\ IF n > 0 /\ calls[n].err # NoError
                THEN /\ config' = config
                     /\ pc' = "done"
                     /\ err' = fmterr(file, Line.no, Tokens[1], calls[n].err)
                ELSE n = Len(chain)
             /\ (Len(chain) > 0 /\ chain[1] = "OneValue" /\ Len(Tail(Tokens)) # 1) =>
                   /\ n = 1
                   /\ config' = config
                   /\ err' = fmterr(file, Line.no, Tokens[1], ErrOneValue)]_vars

\* the second converter of a chain of three has failed on a line with two
\* tokens: the first was called, the third was not, User is still empty
C3_Witness ==
    /\ pc = "done"
    /\ cur < Len(rlines)
    /\ HasChain(cur + 1)
    /\ ChainOf(cur + 1) = <<"lowerTokens", "OneValue", "joinTokens">>
    /\ Len(CallsOf(cur + 1)) = 2
    /\ CallsOf(cur + 1)[2].err = ErrOneValue
    /\ config["User"] = StrVal("")

\* the name fieldNameFromKey looks up first for the key of the line at hand
Normalized == upperAcronymsFrom(Camelize(Tokens[1]), 1)

\* the step ended Parse with the unknown option error for names a and b
UnknownOptionFor(a, b) ==
    /\ pc' = "done"
    /\ err' = fmterr(file, Line.no, Tokens[1], ErrUnknownOption(a, b))
    /\ UNCHANGED <<config, callLog>>

\* the step dispatched the line to the field f
DispatchedTo(f) ==
    /\ ~Contains(err', "unknown option")
    /\ \A g \in DOMAIN config \ {f} : config'[g] = config[g] \/ f \in DOMAIN handlers
    /\ IF f \in DOMAIN handlers
       THEN /\ Len(callLog') = Len(callLog) + 1
            /\ callLog'[Len(callLog')].kind = "handler"
            /\ callLog'[Len(callLog')].name = handlers[f]
       ELSE IF schema[f] \in DOMAIN typeHandlers
       THEN \A j \in (Len(callLog) + 1)..Len(callLog') :
               callLog'[j].name = typeHandlers[schema[f]][callLog'[j].pos]
       ELSE /\ pc' = "done"
            /\ err' = fmterr(file, Line.no, Tokens[1], ErrUnsupported(schema[f]))

\* C7 as claimed: a key and a field that differ only in number match in
\* both directions, the plural key with the singular field as well as the
\* singular key with the plural field; a key with no match either way
\* fails with the unknown option error that names both candidates.
C7_EitherNumberResolves ==
    [][InLoop =>
         LET name == Normalized
             singulars == {f \in DOMAIN schema : Pluralize(f) = name}
         IN  IF name \in DOMAIN schema THEN DispatchedTo(name)
             ELSE IF Pluralize(name) \in DOMAIN schema THEN DispatchedTo(Pluralize(name))
             ELSE IF singulars # {} THEN \E f \in singulars : DispatchedTo(f)
             ELSE UnknownOptionFor(name, Pluralize(name))]_vars

\* C7 as amended: the fallback goes from the singular key to the plural
\* field only; a key that is not a field, and whose plural is not a field,
\* fails with the unknown option error naming the key's name and its
\* plural, also when the struct has the singular of the key as a field.
C7_PluralFallbackOnly ==
    [][InLoop =>
         LET name == Normalized
         IN  IF name \in DOMAIN schema THEN DispatchedTo(name)
             ELSE IF Pluralize(name) \in DOMAIN schema THEN DispatchedTo(Pluralize(name))
             ELSE UnknownOptionFor(name, Pluralize(name))]_vars

\* the key "record" has reached the handler of the field Records
C7_Witness ==
    /\ pc = "done"
    /\ err = NoError
    /\ \E k \in 1..Len(rlines) :
          /\ KeyOf(k) = "record"
          /\ "Record" \notin DOMAIN schema
          /\ Len(CallsOf(k)) = 1
          /\ CallsOf(k)[1].name = "Records"
          /\ "a.b" \in DOMAIN config["Records"].m

\* the registry holds what the code of the repository itself registers
RegistryAtStart == typeHandlers \in {Nothing, NetTypes}

\* C8: with the registry as the repository's code fills it, Parse of the
\* example file into a struct with string fields User and KeyFile and a
\* handler for Records alone returns no error, sets User and KeyFile and
\* calls the handler once with both record names.
C8_ExampleParses ==
    (/\ pc = "done"
     /\ file = "config"
     /\ schema = ConfigT
     /\ handlers = RecordsHandler
     /\ RegistryAtStart) =>
        /\ err = NoError
        /\ config["User"] = StrVal("martin")
        /\ config["KeyFile"] = StrVal("/home/martin/key.pem")
        /\ Len(callLog) = 1
        /\ callLog[1].kind = "handler"
        /\ callLog[1].name = "Records"
        /\ callLog[1].in = <<"example.com", "www.example.com">>

\* C9: when the dispatch of a line fails Parse returns at once: nothing is
\* called or assigned for a later line, and the struct stays as the lines
\* before and the failed line's own handler left it.
C9_AbortsAtOnce ==
    [][/\ (err' # NoError) => pc' \in {"done", "panic"}
       /\ (pc \in {"done", "panic"}) => UNCHANGED <<config, callLog, cur, err, pc>>
       /\ (InLoop /\ pc' = "done") =>
            /\ err' # NoError
            /\ cur' = cur
            /\ \A j \in (Len(callLog) + 1)..Len(callLog') : callLog'[j].line = cur + 1
            /\ SubSeq(callLog', 1, Len(callLog)) = callLog
            /\ IF HasHandler(cur + 1)
               THEN config' = ApplyHandler(handlers[Resolved.name], Tail(Tokens), config).config
               ELSE config' = config
       /\ (InLoop /\ pc' = "parse") =>
            /\ cur' = cur + 1
            /\ \A j \in 1..Len(callLog') : callLog'[j].line <= cur + 1]_vars

\* Parse has failed at the second line of a file of two, after the first
\* line set User; User still has that value
C9_Witness ==
    /\ pc = "done"
    /\ err # NoError
    /\ Len(rlines) = 2
    /\ cur = 1
    /\ KeyOf(1) = "user"
    /\ config["User"] = StrVal("Ab")
    /\ \A j \in 1..Len(callLog) : callLog[j].line <= 2

\* C10 as claimed: every error Parse returns carries the file path, a line
\* number and the key.
C10_EveryErrorHasContext ==
    (pc = "done" /\ err # NoError) =>
        /\ HasPrefix(err, file \o " line ")
        /\ Contains(err, ": error parsing ")

\* the errors readFile returns
ReadErrors ==
    {ErrFirstIndented}
    \cup {ErrNotExist(p) : p \in {file, "nofile"}}
    \cup {ErrTooManyOpen(p) : p \in DOMAIN fs}

\* C10 as amended: an error from the dispatch of a logical line starts with
\* the path given to Parse, the number the line has in the file it comes
\* from, and the line's key; an error of readFile (a file that cannot be
\* opened, a first line that is indented) is returned as it is, with no
\* line number and no key.
C10_DispatchErrorsHaveContext ==
    (pc = "done" /\ err # NoError) =>
        IF cur < Len(rlines)
        THEN /\ HasPrefix(err, file \o " line " \o rlines[cur + 1].no \o ": error parsing "
                                  \o KeyOf(cur + 1) \o ": ")
             /\ KeepsOwnNumber(rlines[cur + 1])
        ELSE /\ err \in ReadErrors
             /\ ~HasPrefix(err, file \o " line ")
             /\ ~Contains(err, "error parsing")

\* Parse of "top" has failed on the third line of the sourced file "inc"
C10_Witness ==
    /\ pc = "done"
    /\ file = "top"
    /\ err = "top line 3: error parsing key-file: "
                \o "open no.pem: no such file or directory (from handler)"

---------------------------------------------------------------------------
(* Claims about the end of reading, checked under FairSpecCycle.           *)

\* readFile has returned its lines to Parse, or an error
Returned == pc \in {"parse", "done"}

\* the process has died: a run-time panic or a fatal error
Died == pc = "panic"

\* a step of readFile touches the innermost call alone, and a call returns
\* to its caller only with its file read to the end
DepthFirst ==
    /\ \A d \in 1..Len(stack) :
          (d < Len(stack) /\ d < Len(stack')) => stack'[d] = stack[d]
    /\ (Len(stack') >= 1 /\ Len(stack') = Len(stack) - 1) =>
          /\ ~HasNext
          /\ stack'[Len(stack')].lines = stack[Len(stack')].lines \o Top.lines

---------------------------------------------------------------------------
(* Claims about the text of a line, checked under SpecText.                *)

\* every logical line produced so far, in the active calls and in Parse
Produced ==
    {rlines[k] : k \in 1..Len(rlines)}
    \cup UNION {{stack[d].lines[k] : k \in 1..Len(stack[d].lines)} : d \in 1..Len(stack)}

\* no physical line of any file has a backslash
NoEscapes == \A p \in DOMAIN fs : \A k \in 1..Len(fs[p]) : ~Contains(fs[p][k], "\\")

\* C11: when no line has a backslash, the text of every logical line
\* readFile produces has no two spaces in a row and no space at its end,
\* and splitting it on single spaces gives no empty token.
C11_TextIsCollapsed ==
    NoEscapes =>
        \A l \in Produced :
            /\ ~Contains(l.text, "  ")
            /\ ~HasSuffix(l.text, " ")
            /\ \A k \in 1..Len(Split(l.text, " ")) : Split(l.text, " ")[k] # ""

\* C13: removeComments and collapseWhitespace index the line in range on
\* every line readFile passes to them: readFile never stops in a run-time
\* panic raised while it computes the text of the line it is at.
C13_TextIsTotal ==
    (pc = "panic" /\ Len(stack) > 0 /\ HasNext /\ ~Skipped(Raw)) =>
        ~processLine(TrimSpace(Raw)).panic

---------------------------------------------------------------------------
(* Claims about updateDomain, checked under SpecUpdate.                    *)

\* the record has an A or AAAA entry of its name
HasAddressEntry(record) ==
    \E j \in 1..Len(info) : info[j].Type \in AddressTypes /\ info[j].FQDN = record

\* the records with no A or AAAA entry of their name
Unmatched == {k \in 1..Len(records) : ~HasAddressEntry(records[k])}

\* C14: sendUpdate is called only if every record has an A or AAAA entry
\* of its name; when a record has none and updateDomain has run to the end
\* of its loops, it returns the "no A or AAAA record found" error and
\* sends nothing.
C14_SendsOnlyIfAllMatch ==
    /\ sent # <<>> => Unmatched = {}
    /\ (pc = "done" /\ Unmatched # {} /\ loop.r > Len(records)) =>
          (err = ErrNoRecord(records) /\ sent = <<>>)

====
